---- MODULE Spec2Model ----
(***************************************************************************)
(* Operator-node bootstrap of mangata-finalizer (src/mangata-finalizer/    *)
(* src/cli.rs): CliArgs::build (clap parsing of argv and environment, the  *)
(* network gate, the ephemeral-key warning), the serde serialization of    *)
(* CliArgs, and the keystore resolver get_keystore behind                  *)
(* get_ecdsa_keystore / get_bls_keystore.                                  *)
(*                                                                         *)
(* Option<T> is modelled as a sequence of length at most one: <<>> is      *)
(* None and <<v>> is Some(v).                                              *)
(***************************************************************************)
EXTENDS Integers, Sequences, FiniteSets, TLC

VARIABLES
    argv,        \* the command line: one entry per flag, and the subcommand
    env,         \* the environment variables clap reads (one per `env` flag)
    pc,          \* "start" | "running" (build returned) | "exited" | "panicked"
    args,        \* Option<CliArgs>: the value build returned
    exit_code,   \* the process exit code once pc = "exited"
    exit_err,    \* Option<clap error> printed to stderr on exit
    log,         \* the tracing lines emitted so far
    calls,       \* the keystore-provider calls made so far, in order
    results,     \* per key group, Option<outcome of its latest resolution>
    serialized   \* Option<serde output of the configuration>

vars == <<argv, env, pc, args, exit_code, exit_err, log, calls, results, serialized>>

----------------------------------------------------------------------------
(* Bounds and input domains *)

\* the number of get_*_keystore invocations explored per run
MaxCalls == 2

\* Chain::AnvilHardhat as u64
AnvilHardhat == 31337

\* default_value_t of Commands::Testnet::stake
DefaultStake == 100

None == <<>>
Some(v) == <<v>>

ChainIds == {AnvilHardhat, 1}
Stakes == {500}
KeyGroups == {"ecdsa", "bls"}
ArgvFiles == {"argv.key"}
EnvFiles == {"env.key"}
ArgvJsons == {"argv-json"}
EnvJsons == {"env-json"}
Passwords == {"hunter2"}
EnvBools == {"true", "false"}

Opt(S) == {None} \cup {Some(v) : v \in S}

----------------------------------------------------------------------------
(* The Commands enum and the raw subcommand on argv *)

Commands(stakes) ==
    {[name |-> n, stake |-> None] : n \in {"OptInAvs", "OptOutAvs", "PrintStatus"}}
        \cup {[name |-> "Testnet", stake |-> s] : s \in stakes}

\* the subcommand as typed: `testnet` may or may not carry --stake
ArgvCommands == Opt(Commands(Opt(Stakes)))

IsTestnet(command) == command # None /\ command[1].name = "Testnet"

----------------------------------------------------------------------------
(* clap: how one flag is read from argv and the environment *)

\* `#[arg(long, env)]` on a valued flag: argv wins, the environment is the fallback
OptionArg(a, e) == IF a # None THEN a ELSE e

\* clap's boolish reading of an environment value for a SetTrue flag
Truthy == {"y", "yes", "t", "true", "on", "1"}
Falsey == {"n", "no", "f", "false", "off", "0"}

\* `#[arg(long, env)]` on a bool: --flag gives true; otherwise the environment
\* value is parsed as a boolean; otherwise the default false
FlagArg(a, e) == IF a THEN TRUE ELSE IF e # None THEN e[1] \in Truthy ELSE FALSE

\* whether clap counts the flag as explicitly present (any source but the default)
Explicit(a, e) == a # None \/ e # None
FlagExplicit(a, e) == a \/ e # None

\* an environment value of a bool flag that is no boolean is a value error
FlagInvalid(a, e) == ~a /\ e # None /\ e[1] \notin (Truthy \cup Falsey)

RequiredArgs ==
    {"avs_service_manager_addr", "bls_compendium_addr",
     "bls_operator_state_retriever_addr", "substrate_rpc_url", "eth_rpc_url",
     "eth_ws_url", "avs_rpc_url", "chain_id"}

\* which of <<file, json, ephemeral>> of a key group clap sees as present
EcdsaKeyPresent(av, ev) ==
    <<Explicit(av.ecdsa_key_file, ev.ecdsa_key_file),
      Explicit(av.ecdsa_key_json, ev.ecdsa_key_json),
      FlagExplicit(av.ecdsa_ephemeral_key, ev.ecdsa_ephemeral_key)>>

BlsKeyPresent(av, ev) ==
    <<Explicit(av.bls_key_file, ev.bls_key_file),
      Explicit(av.bls_key_json, ev.bls_key_json),
      FlagExplicit(av.bls_ephemeral_key, ev.bls_ephemeral_key)>>

NumPresent(present) == Cardinality({i \in 1..3 : present[i]})

\* `#[group(multiple = false)]`: two present members of the group conflict
GroupConflict(present) == NumPresent(present) > 1

\* `#[group(required = true)]`: no present member of the group
GroupMissing(present) == NumPresent(present) = 0

\* a parse that leaves the stake of `testnet` unset when --stake is not given
ParseCommand_NoDefault(command) == command

\* the subcommand as parsed: `testnet` without --stake takes the default
ParseCommand(command) ==
    IF IsTestnet(command) /\ command[1].stake = None
    THEN Some([command[1] EXCEPT !.stake = Some(DefaultStake)])
    ELSE command

\* CliArgs::parse, the failure side: the clap error, if any. Value errors come
\* first, then conflicts, then missing required arguments and groups.
ParseError(av, ev) ==
    LET invalid == {f \in {"ecdsa_ephemeral_key", "bls_ephemeral_key", "register_at_startup"} :
                        FlagInvalid(av[f], ev[f])}
        conflicts == {g \in KeyGroups :
                        GroupConflict(IF g = "ecdsa" THEN EcdsaKeyPresent(av, ev)
                                                     ELSE BlsKeyPresent(av, ev))}
        missing == {f \in RequiredArgs : ~Explicit(av[f], ev[f])}
                     \cup {g \in KeyGroups :
                             GroupMissing(IF g = "ecdsa" THEN EcdsaKeyPresent(av, ev)
                                                         ELSE BlsKeyPresent(av, ev))}
    IN  IF invalid # {} THEN Some([kind |-> "InvalidValue", about |-> invalid])
        ELSE IF conflicts # {} THEN Some([kind |-> "ArgumentConflict", about |-> conflicts])
        ELSE IF missing # {} THEN Some([kind |-> "MissingRequiredArgument", about |-> missing])
        ELSE None

\* CliArgs::parse, the success side: the struct clap fills in
ParsedArgs(av, ev) ==
    [avs_service_manager_addr |-> OptionArg(av.avs_service_manager_addr, ev.avs_service_manager_addr)[1],
     bls_compendium_addr |-> OptionArg(av.bls_compendium_addr, ev.bls_compendium_addr)[1],
     bls_operator_state_retriever_addr |->
        OptionArg(av.bls_operator_state_retriever_addr, ev.bls_operator_state_retriever_addr)[1],
     substrate_rpc_url |-> OptionArg(av.substrate_rpc_url, ev.substrate_rpc_url)[1],
     eth_rpc_url |-> OptionArg(av.eth_rpc_url, ev.eth_rpc_url)[1],
     eth_ws_url |-> OptionArg(av.eth_ws_url, ev.eth_ws_url)[1],
     avs_rpc_url |-> OptionArg(av.avs_rpc_url, ev.avs_rpc_url)[1],
     chain_id |-> OptionArg(av.chain_id, ev.chain_id)[1],
     ecdsa_key |->
        [ecdsa_key_file |-> OptionArg(av.ecdsa_key_file, ev.ecdsa_key_file),
         ecdsa_key_json |-> OptionArg(av.ecdsa_key_json, ev.ecdsa_key_json),
         ecdsa_ephemeral_key |-> FlagArg(av.ecdsa_ephemeral_key, ev.ecdsa_ephemeral_key)],
     ecdsa_key_password |-> OptionArg(av.ecdsa_key_password, ev.ecdsa_key_password),
     bls_key |->
        [bls_key_file |-> OptionArg(av.bls_key_file, ev.bls_key_file),
         bls_key_json |-> OptionArg(av.bls_key_json, ev.bls_key_json),
         bls_ephemeral_key |-> FlagArg(av.bls_ephemeral_key, ev.bls_ephemeral_key)],
     bls_key_password |-> OptionArg(av.bls_key_password, ev.bls_key_password),
     register_at_startup |-> FlagArg(av.register_at_startup, ev.register_at_startup),
     command |-> ParseCommand(av.command)]

----------------------------------------------------------------------------
(* CliArgs::build *)

\* a gate that refuses every command off the anvil chain
GateRejects_AnyCommand(a) == a.chain_id # AnvilHardhat /\ a.command # None

\* a gate that compares the chain id the wrong way round
GateRejects_OnAnvil(a) == a.chain_id = AnvilHardhat /\ IsTestnet(a.command)

\* the network gate: off the anvil chain the Testnet command is refused
GateRejects(a) == a.chain_id # AnvilHardhat /\ IsTestnet(a.command)

\* a warning that does not look at the chain id
EphemeralWarning_AnyChain(a) ==
    a.ecdsa_key.ecdsa_ephemeral_key \/ a.bls_key.bls_ephemeral_key

\* a warning that looks at the ECDSA group only
EphemeralWarning_EcdsaOnly(a) ==
    a.chain_id # AnvilHardhat /\ a.ecdsa_key.ecdsa_ephemeral_key

\* the ephemeral-key warning: off the anvil chain, either group ephemeral
EphemeralWarning(a) ==
    a.chain_id # AnvilHardhat
        /\ (a.ecdsa_key.ecdsa_ephemeral_key \/ a.bls_key.bls_ephemeral_key)

TestnetError == [kind |-> "ArgumentConflict", about |-> {"testnet"}]
WarnLine == "!!! Runing operator with epehemeral keys !!!"

\* a failure handed back to the caller of build instead of ending the process
Exit_ReturnsErr(err) ==
    /\ pc' = "running"
    /\ exit_err' = Some(err)
    /\ UNCHANGED <<argv, env, args, exit_code, log, calls, results, serialized>>

\* Error::exit: the diagnostic goes to stderr and the process ends with the
\* usage exit code
Exit(err) ==
    /\ pc' = "exited"
    /\ exit_code' = 2
    /\ exit_err' = Some(err)
    /\ UNCHANGED <<argv, env, args, log, calls, results, serialized>>

\* a build that looks at the ephemeral keys before it looks at the command
Build_WarnsFirst ==
    /\ pc = "start"
    /\ IF ParseError(argv, env) # None
       THEN Exit(ParseError(argv, env)[1])
       ELSE LET a == ParsedArgs(argv, env)
            IN  /\ log' = IF EphemeralWarning(a) THEN Append(log, WarnLine) ELSE log
                /\ IF GateRejects(a)
                   THEN /\ pc' = "exited"
                        /\ exit_code' = 2
                        /\ exit_err' = Some(TestnetError)
                        /\ UNCHANGED <<argv, env, args, calls, results, serialized>>
                   ELSE /\ args' = Some(a)
                        /\ pc' = "running"
                        /\ UNCHANGED <<argv, env, exit_code, exit_err, calls, results,
                                       serialized>>

\* a build whose gate takes the command out of the configuration it returns
Build_TakesCommand ==
    /\ pc = "start"
    /\ IF ParseError(argv, env) # None
       THEN Exit(ParseError(argv, env)[1])
       ELSE LET a == ParsedArgs(argv, env)
            IN  IF GateRejects(a)
                THEN Exit(TestnetError)
                ELSE /\ log' = IF EphemeralWarning(a) THEN Append(log, WarnLine) ELSE log
                     /\ args' = Some([a EXCEPT !.command = None])
                     /\ pc' = "running"
                     /\ UNCHANGED <<argv, env, exit_code, exit_err, calls, results, serialized>>

\* CliArgs::build: parse, then the network gate, then the ephemeral-key warning
Build ==
    /\ pc = "start"
    /\ IF ParseError(argv, env) # None
       THEN Exit(ParseError(argv, env)[1])
       ELSE LET a == ParsedArgs(argv, env)
            IN  IF GateRejects(a)
                THEN Exit(TestnetError)
                ELSE /\ log' = IF EphemeralWarning(a) THEN Append(log, WarnLine) ELSE log
                     /\ args' = Some(a)
                     /\ pc' = "running"
                     /\ UNCHANGED <<argv, env, exit_code, exit_err, calls, results, serialized>>

----------------------------------------------------------------------------
(* The keystore provider, crate::crypto::keystore::EncodedKeystore *)

\* what each provider function may return: Ok or one of its failures
Outcomes(fn) ==
    CASE fn = "random" -> {"Ok", "Failed"}
      [] fn = "from_path" -> {"Ok", "Io", "Decrypt"}
      [] fn = "from_string" -> {"Ok", "Parse", "Decrypt"}

----------------------------------------------------------------------------
(* get_keystore *)

\* a match that looks into the path: only one well-known file goes before
\* the inline content
Strategy_ByPathValue(path, content, is_random) ==
    IF is_random THEN "random"
    ELSE IF path = Some("argv.key") THEN "from_path"
    ELSE IF content # None THEN "from_string"
    ELSE IF path # None THEN "from_path"
    ELSE "panic"

\* a match whose inline-content arm comes before the path arm
Strategy_ContentBeforePath(path, content, is_random) ==
    IF is_random THEN "random"
    ELSE IF content # None THEN "from_string"
    ELSE IF path # None THEN "from_path"
    ELSE "panic"

\* a match whose path arm comes before the ephemeral arm
Strategy_PathFirst(path, content, is_random) ==
    IF path # None THEN "from_path"
    ELSE IF is_random THEN "random"
    ELSE IF content # None THEN "from_string"
    ELSE "panic"

\* a match whose last arm falls back to a fresh key instead of panicking
Strategy_DefaultRandom(path, content, is_random) ==
    IF is_random THEN "random"
    ELSE IF path # None THEN "from_path"
    ELSE IF content # None THEN "from_string"
    ELSE "random"

\* the match of get_keystore: the first arm that matches wins
Strategy(path, content, is_random) ==
    IF is_random THEN "random"
    ELSE IF path # None THEN "from_path"
    ELSE IF content # None THEN "from_string"
    ELSE "panic"

\* a provider call that hands over an empty password where none was supplied
ProviderCall_DefaultPassword(path, content, is_random, password) ==
    LET fn == Strategy(path, content, is_random)
        pw == IF password = None THEN Some("") ELSE password
    IN  CASE fn = "random" ->
                [fn |-> fn, src |-> None, with_password |-> FALSE, password |-> None]
          [] fn = "from_path" ->
                [fn |-> fn, src |-> path, with_password |-> TRUE, password |-> pw]
          [] fn = "from_string" ->
                [fn |-> fn, src |-> content, with_password |-> TRUE, password |-> pw]

\* the provider call of the selected arm, with the arguments handed to it
ProviderCall(path, content, is_random, password) ==
    LET fn == Strategy(path, content, is_random)
    IN  CASE fn = "random" ->
                [fn |-> fn, src |-> None, with_password |-> FALSE, password |-> None]
          [] fn = "from_path" ->
                [fn |-> fn, src |-> path, with_password |-> TRUE, password |-> password]
          [] fn = "from_string" ->
                [fn |-> fn, src |-> content, with_password |-> TRUE, password |-> password]

\* a run that, when random() fails and a path or inline content is there,
\* goes on to load that
KeystoreRun_RandomFallBack(path, content, is_random, password, out) ==
    IF is_random /\ out # "Ok" /\ (path # None \/ content # None)
    THEN [made |-> <<[call |-> [fn |-> "random", src |-> None,
                                with_password |-> FALSE, password |-> None],
                      returned |-> out],
                     [call |-> [fn |-> IF path # None THEN "from_path" ELSE "from_string",
                                src |-> IF path # None THEN path ELSE content,
                                with_password |-> TRUE, password |-> password],
                      returned |-> "Ok"]>>,
          result |-> "Ok"]
    ELSE [made |-> <<[call |-> [fn |-> IF is_random THEN "random"
                                       ELSE IF path # None THEN "from_path"
                                       ELSE "from_string",
                                src |-> IF is_random THEN None
                                        ELSE IF path # None THEN path ELSE content,
                                with_password |-> ~is_random,
                                password |-> IF is_random THEN None ELSE password],
                      returned |-> out]>>,
          result |-> out]

\* a run that, when from_path fails and inline content is there, goes on to
\* from_string
KeystoreRun_FallThrough(path, content, is_random, password, out) ==
    IF ~is_random /\ path # None /\ content # None /\ out # "Ok"
    THEN [made |-> <<[call |-> [fn |-> "from_path", src |-> path,
                                with_password |-> TRUE, password |-> password],
                      returned |-> out],
                     [call |-> [fn |-> "from_string", src |-> content,
                                with_password |-> TRUE, password |-> password],
                      returned |-> "Ok"]>>,
          result |-> "Ok"]
    ELSE [made |-> <<[call |-> [fn |-> IF is_random THEN "random"
                                       ELSE IF path # None THEN "from_path"
                                       ELSE "from_string",
                                src |-> IF is_random THEN None
                                        ELSE IF path # None THEN path ELSE content,
                                with_password |-> ~is_random,
                                password |-> IF is_random THEN None ELSE password],
                      returned |-> out]>>,
          result |-> out]

\* a run that shares a failure slot with the other key group: once any
\* resolution has failed, every later one reports that failure
KeystoreRun_StickyFailure(path, content, is_random, password, out) ==
    [made |-> <<[call |-> ProviderCall(path, content, is_random, password),
                 returned |-> out]>>,
     result |-> IF \E h \in KeyGroups : results[h] # None /\ results[h] # Some("Ok")
                THEN results[CHOOSE h \in KeyGroups :
                                results[h] # None /\ results[h] # Some("Ok")][1]
                ELSE out]

\* a run that makes the selected call a second time when it failed
KeystoreRun_Retry(path, content, is_random, password, out) ==
    IF out = "Ok"
    THEN [made |-> <<[call |-> ProviderCall(path, content, is_random, password),
                      returned |-> out]>>,
          result |-> out]
    ELSE [made |-> <<[call |-> ProviderCall(path, content, is_random, password),
                      returned |-> out],
                     [call |-> ProviderCall(path, content, is_random, password),
                      returned |-> "Ok"]>>,
          result |-> "Ok"]

\* one run of get_keystore, given what the selected provider call returned:
\* the provider calls it makes (each with what it returned) and its own
\* result. The `?` hands a failure straight back to the caller.
KeystoreRun(path, content, is_random, password, out) ==
    [made |-> <<[call |-> ProviderCall(path, content, is_random, password),
                 returned |-> out]>>,
     result |-> out]

\* a run of get_keystore that takes the passwords out of the configuration
GetKeystore_TakesPassword(g, path, content, is_random, password) ==
    /\ pc = "running"
    /\ Len(calls) < MaxCalls
    /\ IF Strategy(path, content, is_random) = "panic"
       THEN /\ pc' = "panicked"
            /\ UNCHANGED <<calls, results>>
       ELSE \E out \in Outcomes(Strategy(path, content, is_random)) :
                LET run == KeystoreRun(path, content, is_random, password, out)
                IN  /\ calls' = calls \o
                         [i \in 1..Len(run.made) |->
                            [by |-> g, call |-> run.made[i].call,
                             returned |-> run.made[i].returned]]
                    /\ results' = [results EXCEPT ![g] = Some(run.result)]
                    /\ pc' = pc
    /\ args' = Some([args[1] EXCEPT !.ecdsa_key_password = None,
                                    !.bls_key_password = None])
    /\ UNCHANGED <<argv, env, exit_code, exit_err, log, serialized>>

\* one run of get_keystore on behalf of key group g
GetKeystore(g, path, content, is_random, password) ==
    /\ pc = "running"
    /\ Len(calls) < MaxCalls
    /\ IF Strategy(path, content, is_random) = "panic"
       THEN /\ pc' = "panicked"
            /\ UNCHANGED <<calls, results>>
       ELSE \E out \in Outcomes(Strategy(path, content, is_random)) :
                LET run == KeystoreRun(path, content, is_random, password, out)
                IN  /\ calls' = calls \o
                         [i \in 1..Len(run.made) |->
                            [by |-> g, call |-> run.made[i].call,
                             returned |-> run.made[i].returned]]
                    /\ results' = [results EXCEPT ![g] = Some(run.result)]
                    /\ pc' = pc
    /\ UNCHANGED <<argv, env, args, exit_code, exit_err, log, serialized>>

\* an accessor that hands over the other group's password
GetEcdsaKeystore_BlsPassword ==
    /\ args # None
    /\ GetKeystore("ecdsa",
                   args[1].ecdsa_key.ecdsa_key_file,
                   args[1].ecdsa_key.ecdsa_key_json,
                   args[1].ecdsa_key.ecdsa_ephemeral_key,
                   args[1].bls_key_password)

GetEcdsaKeystore ==
    /\ args # None
    /\ GetKeystore("ecdsa",
                   args[1].ecdsa_key.ecdsa_key_file,
                   args[1].ecdsa_key.ecdsa_key_json,
                   args[1].ecdsa_key.ecdsa_ephemeral_key,
                   args[1].ecdsa_key_password)

GetBlsKeystore ==
    /\ args # None
    /\ GetKeystore("bls",
                   args[1].bls_key.bls_key_file,
                   args[1].bls_key.bls_key_json,
                   args[1].bls_key.bls_ephemeral_key,
                   args[1].bls_key_password)

----------------------------------------------------------------------------
(* serde: #[derive(Serialize)] of CliArgs, its key groups and Commands *)

Field(name, value) == <<name, value>>

SerializeFile(name, file) == IF file = None THEN <<>> ELSE <<Field(name, file[1])>>

\* a derive without #[serde(skip)] on the inline json
SerializeEcdsaKey_WithJson(k) ==
    SerializeFile("ecdsa_key_file", k.ecdsa_key_file)
        \o <<Field("ecdsa_key_json", k.ecdsa_key_json)>>
        \o <<Field("ecdsa_ephemeral_key", k.ecdsa_ephemeral_key)>>

SerializeEcdsaKey(k) ==
    SerializeFile("ecdsa_key_file", k.ecdsa_key_file)
        \o <<Field("ecdsa_ephemeral_key", k.ecdsa_ephemeral_key)>>

SerializeBlsKey(k) ==
    SerializeFile("bls_key_file", k.bls_key_file)
        \o <<Field("bls_ephemeral_key", k.bls_ephemeral_key)>>

SerializeCommand(c) ==
    IF c.name = "Testnet" THEN <<c.name, <<Field("stake", c.stake[1])>>>> ELSE <<c.name>>

\* a derive without #[serde(skip)] on the two passwords
Serialize_WithPasswords(a) ==
    <<<<"avs_service_manager_addr", a.avs_service_manager_addr>>,
      <<"bls_compendium_addr", a.bls_compendium_addr>>,
      <<"bls_operator_state_retriever_addr", a.bls_operator_state_retriever_addr>>,
      <<"substrate_rpc_url", a.substrate_rpc_url>>,
      <<"eth_rpc_url", a.eth_rpc_url>>,
      <<"eth_ws_url", a.eth_ws_url>>,
      <<"avs_rpc_url", a.avs_rpc_url>>,
      <<"chain_id", a.chain_id>>,
      <<"ecdsa_key", SerializeEcdsaKey(a.ecdsa_key)>>,
      <<"ecdsa_key_password", a.ecdsa_key_password>>,
      <<"bls_key", SerializeBlsKey(a.bls_key)>>,
      <<"bls_key_password", a.bls_key_password>>,
      <<"register_at_startup", a.register_at_startup>>>>
        \o (IF a.command = None THEN <<>>
            ELSE <<<<"command", SerializeCommand(a.command[1])>>>>)

Serialize(a) ==
    <<Field("avs_service_manager_addr", a.avs_service_manager_addr),
      Field("bls_compendium_addr", a.bls_compendium_addr),
      Field("bls_operator_state_retriever_addr", a.bls_operator_state_retriever_addr),
      Field("substrate_rpc_url", a.substrate_rpc_url),
      Field("eth_rpc_url", a.eth_rpc_url),
      Field("eth_ws_url", a.eth_ws_url),
      Field("avs_rpc_url", a.avs_rpc_url),
      Field("chain_id", a.chain_id),
      Field("ecdsa_key", SerializeEcdsaKey(a.ecdsa_key)),
      Field("bls_key", SerializeBlsKey(a.bls_key)),
      Field("register_at_startup", a.register_at_startup)>>
        \o (IF a.command = None THEN <<>>
            ELSE <<Field("command", SerializeCommand(a.command[1]))>>)

SerializeArgs ==
    /\ pc = "running"
    /\ args # None
    /\ serialized = None
    /\ serialized' = Some(Serialize(args[1]))
    /\ UNCHANGED <<argv, env, pc, args, exit_code, exit_err, log, calls, results>>

----------------------------------------------------------------------------
(* Initial states *)

\* a valued flag given on argv, or in the environment, or not at all
ValueSources(A, E) ==
    {<<a, None>> : a \in Opt(A)} \cup {<<None, Some(e)>> : e \in E}

\* a bool flag given on argv, or in the environment, or not at all
FlagSources == {<<FALSE, None>>, <<TRUE, None>>} \cup {<<FALSE, Some(b)>> : b \in EnvBools}

StartState ==
    /\ pc = "start"
    /\ args = None
    /\ exit_code = 0
    /\ exit_err = None
    /\ log = <<>>
    /\ calls = <<>>
    /\ results = [g \in KeyGroups |-> None]
    /\ serialized = None

\* the process as started: the required plain flags on argv, every key-group
\* flag from at most one of argv and the environment
Init ==
    /\ StartState
    /\ \E ef \in ValueSources(ArgvFiles, EnvFiles), ej \in ValueSources(ArgvJsons, EnvJsons),
          ee \in FlagSources, ep \in Opt(Passwords),
          bf \in ValueSources(ArgvFiles, EnvFiles), bj \in ValueSources(ArgvJsons, EnvJsons),
          be \in FlagSources, bp \in Opt(Passwords),
          c \in ChainIds, cmd \in ArgvCommands :
        /\ argv = [avs_service_manager_addr |-> Some("0xa1"),
                   bls_compendium_addr |-> Some("0xa2"),
                   bls_operator_state_retriever_addr |-> Some("0xa3"),
                   substrate_rpc_url |-> Some("ws://substrate"),
                   eth_rpc_url |-> Some("http://eth"),
                   eth_ws_url |-> Some("ws://eth"),
                   avs_rpc_url |-> Some("http://avs"),
                   chain_id |-> Some(c),
                   ecdsa_key_file |-> ef[1], ecdsa_key_json |-> ej[1],
                   ecdsa_ephemeral_key |-> ee[1], ecdsa_key_password |-> ep,
                   bls_key_file |-> bf[1], bls_key_json |-> bj[1],
                   bls_ephemeral_key |-> be[1], bls_key_password |-> bp,
                   register_at_startup |-> FALSE,
                   command |-> cmd]
        /\ env = [avs_service_manager_addr |-> None,
                  bls_compendium_addr |-> None,
                  bls_operator_state_retriever_addr |-> None,
                  substrate_rpc_url |-> None,
                  eth_rpc_url |-> None,
                  eth_ws_url |-> None,
                  avs_rpc_url |-> None,
                  chain_id |-> None,
                  ecdsa_key_file |-> ef[2], ecdsa_key_json |-> ej[2],
                  ecdsa_ephemeral_key |-> ee[2], ecdsa_key_password |-> None,
                  bls_key_file |-> bf[2], bls_key_json |-> bj[2],
                  bls_ephemeral_key |-> be[2], bls_key_password |-> None,
                  register_at_startup |-> None]

Next == Build \/ GetEcdsaKeystore \/ GetBlsKeystore

Spec == Init /\ [][Next]_vars

\* the same process, followed up to the serialization of its configuration
NextSerialize == Build \/ SerializeArgs

SpecSerialize == Init /\ [][NextSerialize]_vars

\* the resolver on its own: any CliArgs value (its fields are public), so that
\* every combination of path, content and flag reaches get_keystore
NoArgv ==
    [avs_service_manager_addr |-> None, bls_compendium_addr |-> None,
     bls_operator_state_retriever_addr |-> None, substrate_rpc_url |-> None,
     eth_rpc_url |-> None, eth_ws_url |-> None, avs_rpc_url |-> None,
     chain_id |-> None,
     ecdsa_key_file |-> None, ecdsa_key_json |-> None,
     ecdsa_ephemeral_key |-> FALSE, ecdsa_key_password |-> None,
     bls_key_file |-> None, bls_key_json |-> None,
     bls_ephemeral_key |-> FALSE, bls_key_password |-> None,
     register_at_startup |-> FALSE, command |-> None]

NoEnv ==
    [avs_service_manager_addr |-> None, bls_compendium_addr |-> None,
     bls_operator_state_retriever_addr |-> None, substrate_rpc_url |-> None,
     eth_rpc_url |-> None, eth_ws_url |-> None, avs_rpc_url |-> None,
     chain_id |-> None,
     ecdsa_key_file |-> None, ecdsa_key_json |-> None,
     ecdsa_ephemeral_key |-> None, ecdsa_key_password |-> None,
     bls_key_file |-> None, bls_key_json |-> None,
     bls_ephemeral_key |-> None, bls_key_password |-> None,
     register_at_startup |-> None]

\* the passwords a configuration can hold: the field is an Option<String>,
\* and the empty string is a value of it
ResolvePasswords == Passwords \cup {""}

InitResolve ==
    /\ argv = NoArgv
    /\ env = NoEnv
    /\ pc = "running"
    /\ exit_code = 0
    /\ exit_err = None
    /\ log = <<>>
    /\ calls = <<>>
    /\ results = [g \in KeyGroups |-> None]
    /\ serialized = None
    /\ \E ef \in Opt(ArgvFiles), ej \in Opt(ArgvJsons), ee \in BOOLEAN, ep \in Opt(ResolvePasswords),
          bf \in Opt(ArgvFiles), bj \in Opt(ArgvJsons), be \in BOOLEAN, bp \in Opt(ResolvePasswords) :
        args = Some([avs_service_manager_addr |-> "0xa1",
                     bls_compendium_addr |-> "0xa2",
                     bls_operator_state_retriever_addr |-> "0xa3",
                     substrate_rpc_url |-> "ws://substrate",
                     eth_rpc_url |-> "http://eth",
                     eth_ws_url |-> "ws://eth",
                     avs_rpc_url |-> "http://avs",
                     chain_id |-> AnvilHardhat,
                     ecdsa_key |-> [ecdsa_key_file |-> ef, ecdsa_key_json |-> ej,
                                    ecdsa_ephemeral_key |-> ee],
                     ecdsa_key_password |-> ep,
                     bls_key |-> [bls_key_file |-> bf, bls_key_json |-> bj,
                                  bls_ephemeral_key |-> be],
                     bls_key_password |-> bp,
                     register_at_startup |-> FALSE,
                     command |-> None])

NextResolve == GetEcdsaKeystore \/ GetBlsKeystore

SpecResolve == InitResolve /\ [][NextResolve]_vars

----------------------------------------------------------------------------
(* The input as the operator gave it, and the outcome of build *)

\* the sources a key group's input populates: a key file, inline json, or an
\* ephemeral flag that is set
EcdsaInputSources ==
    <<argv.ecdsa_key_file # None \/ env.ecdsa_key_file # None,
      argv.ecdsa_key_json # None \/ env.ecdsa_key_json # None,
      argv.ecdsa_ephemeral_key \/ env.ecdsa_ephemeral_key = Some("true")>>

BlsInputSources ==
    <<argv.bls_key_file # None \/ env.bls_key_file # None,
      argv.bls_key_json # None \/ env.bls_key_json # None,
      argv.bls_ephemeral_key \/ env.bls_ephemeral_key = Some("true")>>

HowMany(t) == Cardinality({i \in 1..3 : t[i]})

InputChainId == IF argv.chain_id # None THEN argv.chain_id ELSE env.chain_id

BuildReturned == pc \in {"running", "panicked"}
BuildFailed == pc = "exited" /\ args = None /\ exit_code # 0 /\ exit_err # None

CallsBy(g) == {i \in 1..Len(calls) : calls[i].by = g}

----------------------------------------------------------------------------
(* C1 *)

\* C1: whenever a key group's input populates zero or more than one of
\* {key file, inline json, ephemeral flag}, build fails with a key-group
\* error and returns no configuration.
C1_InvalidKeyGroupFailsBuild ==
    (pc # "start" /\ (HowMany(EcdsaInputSources) # 1 \/ HowMany(BlsInputSources) # 1))
        => (BuildFailed /\ exit_err[1].about \cap KeyGroups # {})

----------------------------------------------------------------------------
(* C2 *)

SourceStrategy(t) ==
    IF t[1] THEN "from_path" ELSE IF t[2] THEN "from_string" ELSE "random"

\* C2: whenever each key group's input populates exactly one source (and the
\* network gate lets the command through), build returns a configuration and
\* every resolution of a group makes exactly one provider call, to the
\* strategy of that source.
C2_OneSourceBuildsAndDispatches ==
    /\ [](( /\ pc # "start"
            /\ HowMany(EcdsaInputSources) = 1
            /\ HowMany(BlsInputSources) = 1
            /\ ~(InputChainId # Some(AnvilHardhat) /\ IsTestnet(argv.command)))
          => ( /\ pc = "running"
               /\ args # None
               /\ \A i \in CallsBy("ecdsa") :
                    calls[i].call.fn = SourceStrategy(EcdsaInputSources)
               /\ \A i \in CallsBy("bls") :
                    calls[i].call.fn = SourceStrategy(BlsInputSources)))
    /\ [][calls' # calls => Len(calls') = Len(calls) + 1]_vars

----------------------------------------------------------------------------
(* C3 *)

\* C3: off chain 31337 with the Testnet command, build ends the process with
\* a non-zero exit and a usage error, and no provider call has been made.
C3_TestnetOffAnvilExitsBeforeResolution ==
    (pc # "start" /\ InputChainId # Some(AnvilHardhat) /\ IsTestnet(argv.command))
        => (BuildFailed /\ calls = <<>> /\ \A g \in KeyGroups : results[g] = None)

\* both key groups parse and the gate itself ends the process
C3_Witness ==
    /\ pc = "exited"
    /\ exit_err = Some(TestnetError)
    /\ exit_code = 2
    /\ InputChainId # Some(AnvilHardhat)
    /\ IsTestnet(argv.command)
    /\ calls = <<>>

----------------------------------------------------------------------------
(* C4 *)

\* the flags of a key group that are given at all, on argv or in the environment
EcdsaInputGiven ==
    <<argv.ecdsa_key_file # None \/ env.ecdsa_key_file # None,
      argv.ecdsa_key_json # None \/ env.ecdsa_key_json # None,
      argv.ecdsa_ephemeral_key \/ env.ecdsa_ephemeral_key # None>>

BlsInputGiven ==
    <<argv.bls_key_file # None \/ env.bls_key_file # None,
      argv.bls_key_json # None \/ env.bls_key_json # None,
      argv.bls_ephemeral_key \/ env.bls_ephemeral_key # None>>

\* the input is one argument parsing accepts: every required flag is given, and
\* of each key group exactly one flag
InputParses ==
    /\ \A f \in RequiredArgs : argv[f] # None \/ env[f] # None
    /\ HowMany(EcdsaInputGiven) = 1
    /\ HowMany(BlsInputGiven) = 1

EitherEphemeral == EcdsaInputSources[3] \/ BlsInputSources[3]

\* C4 as stated: off chain 31337 with an ephemeral key group, build of an
\* input that parses returns and has logged the warning.
C4_EphemeralOffAnvilBuilds ==
    (pc # "start" /\ InputParses /\ InputChainId # Some(AnvilHardhat) /\ EitherEphemeral)
        => (BuildReturned /\ args # None /\ log # <<>>)

\* C4 amended: the same for every command but Testnet; the warning is logged
\* once build has returned, and every resolution of an ephemeral group calls
\* random().
C4_EphemeralOffAnvilWarns ==
    ( /\ pc # "start"
      /\ InputParses
      /\ InputChainId # Some(AnvilHardhat)
      /\ ~IsTestnet(argv.command)
      /\ EitherEphemeral)
        => ( /\ BuildReturned
             /\ args # None
             /\ log = <<WarnLine>>
             /\ \A i \in CallsBy("ecdsa") :
                    EcdsaInputSources[3] => calls[i].call.fn = "random"
             /\ \A i \in CallsBy("bls") :
                    BlsInputSources[3] => calls[i].call.fn = "random")

\* only the BLS group is ephemeral, off the anvil chain, and it has been resolved
C4_Witness ==
    /\ pc = "running"
    /\ InputChainId # Some(AnvilHardhat)
    /\ BlsInputSources[3]
    /\ ~EcdsaInputSources[3]
    /\ log = <<WarnLine>>
    /\ \E i \in CallsBy("bls") : calls[i].call.fn = "random"

----------------------------------------------------------------------------
(* C5, C6, C7: get_keystore on any combination of path, content and flag *)

GroupPath(g) ==
    IF g = "ecdsa" THEN args[1].ecdsa_key.ecdsa_key_file ELSE args[1].bls_key.bls_key_file
GroupContent(g) ==
    IF g = "ecdsa" THEN args[1].ecdsa_key.ecdsa_key_json ELSE args[1].bls_key.bls_key_json
GroupEphemeral(g) ==
    IF g = "ecdsa" THEN args[1].ecdsa_key.ecdsa_ephemeral_key
    ELSE args[1].bls_key.bls_ephemeral_key
GroupPassword(g) ==
    IF g = "ecdsa" THEN args[1].ecdsa_key_password ELSE args[1].bls_key_password

\* the priority table of the claim, case by case
Priority(path, content, ephemeral) ==
    CASE ephemeral -> "random"
      [] ~ephemeral /\ path # None -> "from_path"
      [] ~ephemeral /\ path = None /\ content # None -> "from_string"
      [] ~ephemeral /\ path = None /\ content = None -> "panic"

NoSource(g) == Priority(GroupPath(g), GroupContent(g), GroupEphemeral(g)) = "panic"

\* C5: every resolution makes one provider call, the one the priority
\* (ephemeral, then path, then content) selects; a group with no source gets
\* no call and no result, and only such a group makes the resolver panic.
C5_StrategyPriority ==
    /\ [](args # None =>
            /\ \A i \in 1..Len(calls) :
                 calls[i].call.fn =
                    Priority(GroupPath(calls[i].by), GroupContent(calls[i].by),
                             GroupEphemeral(calls[i].by))
            /\ \A g \in KeyGroups : NoSource(g) => (CallsBy(g) = {} /\ results[g] = None)
            /\ pc = "panicked" => \E g \in KeyGroups : NoSource(g))
    /\ [][calls' # calls => Len(calls') = Len(calls) + 1]_vars

\* a group with all three sources populated has been resolved, by random()
C5_Witness ==
    /\ args # None
    /\ \E g \in KeyGroups :
         /\ GroupPath(g) # None /\ GroupContent(g) # None /\ GroupEphemeral(g)
         /\ \E i \in CallsBy(g) : calls[i].call.fn = "random"
    /\ \E g \in KeyGroups :
         /\ GroupPath(g) # None /\ GroupContent(g) # None /\ ~GroupEphemeral(g)
         /\ \E i \in CallsBy(g) : calls[i].call.fn = "from_path"

FileSourced(g) == ~GroupEphemeral(g) /\ GroupPath(g) # None

\* C6: when the from_path call of a file-sourced group fails, that failure is
\* the resolver's result and from_string is never called for the group, inline
\* content present or not.
C6_FromPathFailureNoFallThrough ==
    /\ [](args # None =>
            \A g \in KeyGroups : FileSourced(g) =>
                \A i \in CallsBy(g) : calls[i].call.fn = "from_path")
    /\ [][(args # None /\ Len(calls') > Len(calls)) =>
            LET first == calls'[Len(calls) + 1]
            IN  (FileSourced(first.by) /\ first.returned # "Ok") =>
                    /\ Len(calls') = Len(calls) + 1
                    /\ first.call.fn = "from_path"
                    /\ results'[first.by] = Some(first.returned)]_vars

\* a group with a path and inline content whose from_path call failed
C6_Witness ==
    /\ args # None
    /\ \E g \in KeyGroups :
         /\ FileSourced(g) /\ GroupContent(g) # None
         /\ CallsBy(g) # {}
         /\ \A i \in CallsBy(g) : calls[i].call.fn = "from_path" /\ calls[i].returned = "Decrypt"
         /\ results[g] = Some("Decrypt")

\* C7: resolving a group whose ephemeral flag is set calls only random(), and
\* hands the password to no provider call.
C7_EphemeralIgnoresPathAndPassword ==
    args # None =>
        \A g \in KeyGroups : GroupEphemeral(g) =>
            \A i \in CallsBy(g) :
                /\ calls[i].call.fn = "random"
                /\ ~calls[i].call.with_password
                /\ calls[i].call.password = None
                /\ calls[i].call.src = None

\* an ephemeral group that also has a path, inline content and a password,
\* resolved
C7_Witness ==
    /\ args # None
    /\ \E g \in KeyGroups :
         /\ GroupEphemeral(g)
         /\ GroupPath(g) # None /\ GroupContent(g) # None /\ GroupPassword(g) # None
         /\ CallsBy(g) # {}

----------------------------------------------------------------------------
(* C8 *)

SerializedKeys(out) == {out[i][1] : i \in 1..Len(out)}

\* C8: the serialized configuration is the same whatever the two passwords
\* are, and has no password field.
C8_PasswordsNotSerialized ==
    serialized # None =>
        /\ \A p1 \in Opt(Passwords \cup {"other"}), p2 \in Opt(Passwords \cup {"other"}) :
             Serialize([args[1] EXCEPT !.ecdsa_key_password = p1,
                                       !.bls_key_password = p2]) = serialized[1]
        /\ SerializedKeys(serialized[1]) \cap {"ecdsa_key_password", "bls_key_password"} = {}

\* a configuration with both passwords set has been serialized
C8_Witness ==
    /\ serialized # None
    /\ args[1].ecdsa_key_password # None
    /\ args[1].bls_key_password # None

----------------------------------------------------------------------------
(* C9 *)

\* C9: on chain 31337 the Testnet command of an input that parses is accepted;
\* its stake is 100 without --stake and N with --stake N.
C9_TestnetStakeOnAnvil ==
    ( /\ pc # "start"
      /\ InputParses
      /\ InputChainId = Some(31337)
      /\ IsTestnet(argv.command))
        => ( /\ BuildReturned
             /\ args # None
             /\ IsTestnet(args[1].command)
             /\ args[1].command[1].stake =
                    (IF argv.command[1].stake = None THEN Some(100)
                     ELSE argv.command[1].stake))

\* `testnet` without --stake on chain 31337, built
C9_Witness ==
    /\ pc = "running"
    /\ InputChainId = Some(31337)
    /\ IsTestnet(argv.command)
    /\ argv.command[1].stake = None
    /\ args[1].command[1].stake = Some(100)

----------------------------------------------------------------------------
(* C10 *)

\* C10: every configuration build returns has exactly one source in each key
\* group, and no resolution of it reaches the panic branch.
C10_BuiltKeyGroupsResolvable ==
    (pc # "start" /\ args # None) =>
        /\ pc # "panicked"
        /\ \A g \in KeyGroups :
             Cardinality({k \in 1..3 :
                <<GroupPath(g) # None, GroupContent(g) # None, GroupEphemeral(g)>>[k]}) = 1

----------------------------------------------------------------------------
(* C11 *)

\* C11: a resolution of a key group with no path, no inline content and the
\* ephemeral flag unset makes no provider call and hands no result (Ok or Err)
\* back; the process panics, without a usage error and without an exit code.
C11_NoSourcePanics ==
    /\ [](args # None =>
            /\ \A g \in KeyGroups :
                 (GroupPath(g) = None /\ GroupContent(g) = None /\ ~GroupEphemeral(g))
                    => (results[g] = None /\ CallsBy(g) = {})
            /\ pc = "panicked" => (exit_err = None /\ exit_code = 0))
    /\ [][(pc = "running" /\ pc' # "running") =>
            /\ pc' = "panicked"
            /\ calls' = calls
            /\ results' = results
            /\ \E g \in KeyGroups :
                 GroupPath(g) = None /\ GroupContent(g) = None /\ ~GroupEphemeral(g)]_vars

\* the resolver has panicked on a group with no source
C11_Witness ==
    /\ pc = "panicked"
    /\ args # None
    /\ \E g \in KeyGroups :
         /\ GroupPath(g) = None /\ GroupContent(g) = None /\ ~GroupEphemeral(g)
         /\ results[g] = None
         /\ CallsBy(g) = {}

----------------------------------------------------------------------------
(* C12 *)

----------------------------------------------------------------------------
(* C13 *)

OtherGroup(g) == IF g = "ecdsa" THEN "bls" ELSE "ecdsa"

\* the provider call a group's own fields determine
OwnCall(g) ==
    IF GroupEphemeral(g)
    THEN [fn |-> "random", src |-> None, with_password |-> FALSE, password |-> None]
    ELSE IF GroupPath(g) # None
    THEN [fn |-> "from_path", src |-> GroupPath(g), with_password |-> TRUE,
          password |-> GroupPassword(g)]
    ELSE [fn |-> "from_string", src |-> GroupContent(g), with_password |-> TRUE,
          password |-> GroupPassword(g)]

\* a resolution of group g that returns out
ResolvesTo(g, out) ==
    /\ IF g = "ecdsa" THEN GetEcdsaKeystore ELSE GetBlsKeystore
    /\ results'[g] = Some(out)

\* C13: a resolution of one key group makes the call its own fields determine,
\* returns what that call returned, and leaves the other group's result and the
\* configuration alone; and whatever the other group's resolution did before
\* (nothing, success, failure), every outcome of this group's provider call
\* is still open to it.
C13_ResolutionsIndependent ==
    /\ [][(pc = "running" /\ pc' = "running" /\ args # None
              /\ <<calls, results>>' # <<calls, results>>) =>
            /\ Len(calls') = Len(calls) + 1
            /\ SubSeq(calls', 1, Len(calls)) = calls
            /\ LET last == calls'[Len(calls')]
               IN  /\ last.call = OwnCall(last.by)
                   /\ results'[last.by] = Some(last.returned)
                   /\ results'[OtherGroup(last.by)] = results[OtherGroup(last.by)]
            /\ args' = args]_vars
    /\ []((pc = "running" /\ args # None /\ Len(calls) < MaxCalls) =>
            \A g \in KeyGroups : ~NoSource(g) =>
                \A out \in Outcomes(OwnCall(g).fn) : ENABLED ResolvesTo(g, out))

\* ECDSA was resolved first and failed, BLS was resolved after it and succeeded
C13_Witness ==
    /\ Len(calls) = 2
    /\ calls[1].by = "ecdsa" /\ calls[1].returned # "Ok"
    /\ calls[2].by = "bls" /\ calls[2].returned = "Ok"
    /\ results["ecdsa"] = Some(calls[1].returned)
    /\ results["bls"] = Some("Ok")

----------------------------------------------------------------------------
(* The process started with one flag moved from argv to the environment *)

\* the flags declared `#[arg(long, env)]`
EnvFlags ==
    RequiredArgs \cup
        {"ecdsa_key_file", "ecdsa_key_json", "ecdsa_ephemeral_key", "ecdsa_key_password",
         "bls_key_file", "bls_key_json", "bls_ephemeral_key", "bls_key_password",
         "register_at_startup"}

BoolFlags == {"ecdsa_ephemeral_key", "bls_ephemeral_key", "register_at_startup"}
EcdsaKeyFlags == {"ecdsa_key_file", "ecdsa_key_json", "ecdsa_ephemeral_key"}
BlsKeyFlags == {"bls_key_file", "bls_key_json", "bls_ephemeral_key"}

\* a complete command line: the ECDSA key from a file, the BLS key inline
FullArgv(c, cmd) ==
    [avs_service_manager_addr |-> Some("0xa1"),
     bls_compendium_addr |-> Some("0xa2"),
     bls_operator_state_retriever_addr |-> Some("0xa3"),
     substrate_rpc_url |-> Some("ws://substrate"),
     eth_rpc_url |-> Some("http://eth"),
     eth_ws_url |-> Some("ws://eth"),
     avs_rpc_url |-> Some("http://avs"),
     chain_id |-> Some(c),
     ecdsa_key_file |-> Some("argv.key"), ecdsa_key_json |-> None,
     ecdsa_ephemeral_key |-> FALSE, ecdsa_key_password |-> Some("hunter2"),
     bls_key_file |-> None, bls_key_json |-> Some("argv-json"),
     bls_ephemeral_key |-> FALSE, bls_key_password |-> Some("hunter2"),
     register_at_startup |-> FALSE,
     command |-> cmd]

\* what the command line gives for flag f when it gives it at all
ArgvValue(f, c) ==
    CASE f \in BoolFlags -> TRUE
      [] f = "chain_id" -> Some(c)
      [] f \in {"ecdsa_key_file", "bls_key_file"} -> Some("argv.key")
      [] f \in {"ecdsa_key_json", "bls_key_json"} -> Some("argv-json")
      [] OTHER -> FullArgv(c, None)[f]

\* what the environment variable of flag f holds
EnvValue(f, ec) ==
    CASE f \in BoolFlags -> Some("true")
      [] f = "chain_id" -> Some(ec)
      [] f = "stake" -> Some(250)
      [] f \in {"ecdsa_key_file", "bls_key_file"} -> Some("env.key")
      [] f \in {"ecdsa_key_json", "bls_key_json"} -> Some("env-json")
      [] f \in {"ecdsa_key_password", "bls_key_password"} -> Some("env-secret")
      [] OTHER -> Some("env-value")

\* flag f left off the command line
Absent(f) == IF f \in BoolFlags THEN FALSE ELSE None

\* the command line with flag `moved` taken off (and with it the other member
\* of its key group), or kept when also_argv
MovedArgv(moved, also_argv, c, cmd) ==
    [f \in DOMAIN FullArgv(c, cmd) |->
        IF f = moved THEN (IF also_argv THEN ArgvValue(f, c) ELSE Absent(f))
        ELSE IF (moved \in EcdsaKeyFlags /\ f \in EcdsaKeyFlags)
                  \/ (moved \in BlsKeyFlags /\ f \in BlsKeyFlags)
        THEN Absent(f)
        ELSE FullArgv(c, cmd)[f]]

\* the environment: only the variable of `moved` is set (STAKE too, which no
\* flag declares)
MovedEnv(moved, ec) ==
    [f \in EnvFlags \cup {"stake"} |-> IF f = moved THEN EnvValue(f, ec) ELSE None]

InitEnv ==
    /\ StartState
    /\ \E moved \in EnvFlags \cup {"stake"}, also_argv \in BOOLEAN,
          c \in ChainIds, ec \in ChainIds, cmd \in ArgvCommands :
        /\ argv = MovedArgv(moved, also_argv, c, cmd)
        /\ env = MovedEnv(moved, ec)

NextEnv == Build

SpecEnv == InitEnv /\ [][NextEnv]_vars

----------------------------------------------------------------------------
(* C14 *)

\* the field of the built configuration that flag f fills, as an Option (a
\* bool flag as itself)
ArgsValue(f) ==
    CASE f = "ecdsa_key_file" -> args[1].ecdsa_key.ecdsa_key_file
      [] f = "ecdsa_key_json" -> args[1].ecdsa_key.ecdsa_key_json
      [] f = "ecdsa_ephemeral_key" -> args[1].ecdsa_key.ecdsa_ephemeral_key
      [] f = "bls_key_file" -> args[1].bls_key.bls_key_file
      [] f = "bls_key_json" -> args[1].bls_key.bls_key_json
      [] f = "bls_ephemeral_key" -> args[1].bls_key.bls_ephemeral_key
      [] f = "ecdsa_key_password" -> args[1].ecdsa_key_password
      [] f = "bls_key_password" -> args[1].bls_key_password
      [] f = "register_at_startup" -> args[1].register_at_startup
      [] OTHER -> Some(args[1][f])

\* flag f is not on the command line and its environment variable is set
OnlyInEnv(f) ==
    /\ env[f] # None
    /\ IF f \in BoolFlags THEN ~argv[f] ELSE argv[f] = None

\* the built configuration has the environment's value for flag f
TakenFromEnv(f) ==
    IF f \in BoolFlags THEN ArgsValue(f) = (env[f] = Some("true"))
    ELSE ArgsValue(f) = env[f]

\* C14: when the network gate lets the command through, build returns, every
\* flag that is only in the environment has the environment's value in the
\* configuration, and so has the stake of `testnet` given without --stake.
C14_EveryFlagFromEnv ==
    (pc # "start" /\ ~(InputChainId # Some(AnvilHardhat) /\ IsTestnet(argv.command)))
        => /\ pc = "running"
           /\ args # None
           /\ \A f \in EnvFlags : OnlyInEnv(f) => TakenFromEnv(f)
           /\ (IsTestnet(argv.command) /\ argv.command[1].stake = None /\ env.stake # None)
                 => args[1].command[1].stake = env.stake

----------------------------------------------------------------------------
(* C15 *)

Failures == {"Failed", "Io", "Parse", "Decrypt"}

\* C15: one resolution makes at most one provider call, and when that call
\* fails, its failure is what the resolution returns.
C15_NoRetry ==
    [][(pc = "running" /\ args # None) =>
        /\ Len(calls') <= Len(calls) + 1
        /\ Len(calls') = Len(calls) + 1 =>
             LET last == calls'[Len(calls')]
             IN  last.returned \in Failures =>
                    results'[last.by] = Some(last.returned)]_vars

\* a group resolved once, whose random() call failed and whose result is that
\* failure
C15_Witness ==
    \E g \in KeyGroups :
        /\ Cardinality(CallsBy(g)) = 1
        /\ \A i \in CallsBy(g) : calls[i].call.fn = "random" /\ calls[i].returned = "Failed"
        /\ results[g] = Some("Failed")

----------------------------------------------------------------------------
(* The startup sequence around CliArgs: build, then one resolution per key *)
(* group (in either order), then the hand-off or the end of the process    *)

\* a caller that resolves a group again whatever it already holds
Pending_Always(g) == TRUE

\* the group has not been resolved yet
Pending(g) == results[g] = None

StartupResolveEcdsa == Pending("ecdsa") /\ GetEcdsaKeystore

StartupResolveBls == Pending("bls") /\ GetBlsKeystore

ResolutionFailed == \E g \in KeyGroups : results[g] # None /\ results[g] # Some("Ok")

\* a keystore failure aborts startup: the error is reported and the process
\* ends with a non-zero exit code
StartupAbort ==
    /\ pc = "running"
    /\ ResolutionFailed
    /\ pc' = "exited"
    /\ exit_code' = 1
    /\ exit_err' = Some([kind |-> "KeystoreError",
                         about |-> {g \in KeyGroups :
                                      results[g] # None /\ results[g] # Some("Ok")}])
    /\ UNCHANGED <<argv, env, args, log, calls, results, serialized>>

\* a hand-off as soon as one keystore is there
ReadyToHandOff_Any == \E g \in KeyGroups : results[g] = Some("Ok")

\* both keystores are there
ReadyToHandOff == \A g \in KeyGroups : results[g] = Some("Ok")

\* the configuration and the two keystores go to the rest of the program
StartupHandOff ==
    /\ pc = "running"
    /\ ReadyToHandOff
    /\ pc' = "handed_off"
    /\ UNCHANGED <<argv, env, args, exit_code, exit_err, log, calls, results, serialized>>

NextStartup ==
    Build \/ StartupResolveEcdsa \/ StartupResolveBls \/ StartupAbort \/ StartupHandOff

SpecStartup == Init /\ [][NextStartup]_vars

----------------------------------------------------------------------------
(* C16 *)

\* C16: in a run of the startup sequence each key group is resolved at most
\* once: at most one provider call is ever made for it.
C16_ResolvedAtMostOnce ==
    \A g \in KeyGroups : Cardinality(CallsBy(g)) <= 1

\* both groups have been resolved, one of them with a fresh random key
C16_Witness ==
    /\ Cardinality(CallsBy("ecdsa")) = 1
    /\ Cardinality(CallsBy("bls")) = 1
    /\ \E i \in 1..Len(calls) : calls[i].call.fn = "random" /\ calls[i].returned = "Ok"
    /\ \A g \in KeyGroups : results[g] # None

----------------------------------------------------------------------------
(* C20 *)

Ended == pc \in {"exited", "panicked"}

\* C20: the startup sequence never stops short of an end: it goes on until the
\* hand-off or the end of the process; at the hand-off there are a
\* configuration and two keystores; while the process runs on after build,
\* the configuration is there.
C20_HandOffOrTerminate ==
    /\ pc = "handed_off" =>
         (args # None /\ \A g \in KeyGroups : results[g] = Some("Ok"))
    /\ (pc # "handed_off" /\ ~Ended) => ENABLED NextStartup
    /\ pc = "running" => args # None

\* the hand-off has happened
C20_Witness ==
    /\ pc = "handed_off"
    /\ args # None
    /\ results["ecdsa"] = Some("Ok")
    /\ results["bls"] = Some("Ok")
    /\ Len(calls) = 2

----------------------------------------------------------------------------
(* C17 *)

\* C17: once build has returned a configuration, no step changes any field
\* of it, whatever the resolutions return.
C17_ConfigurationReadOnly ==
    [][args # None => args' = args]_vars

\* two resolutions, one successful and one failed, of a configuration that
\* holds both passwords
C17_Witness ==
    /\ pc = "running"
    /\ args # None
    /\ args[1].ecdsa_key_password # None
    /\ args[1].bls_key_password # None
    /\ Len(calls) = 2
    /\ \E i, j \in 1..Len(calls) :
         calls[i].returned = "Ok" /\ calls[j].returned \in Failures

----------------------------------------------------------------------------
(* C18 *)

\* C18: the error a failed resolution returns tells which key group failed:
\* when the same provider call fails the same way for both groups, the two
\* resolvers return different errors.
C18_ErrorNamesKeyGroup ==
    \A i \in CallsBy("ecdsa"), j \in CallsBy("bls") :
        (/\ calls[i].call = calls[j].call
         /\ calls[i].returned = calls[j].returned
         /\ calls[i].returned \in Failures)
            => results["ecdsa"] # results["bls"]

----------------------------------------------------------------------------
(* C19 *)

\* C19: a file-sourced group is loaded by from_path from its path, and the
\* provider receives exactly the password the configuration holds: none where
\* none was supplied, the empty string where it was empty, never a default.
C19_PasswordPassedThrough ==
    args # None =>
        \A g \in KeyGroups : FileSourced(g) =>
            \A i \in CallsBy(g) :
                /\ calls[i].call.fn = "from_path"
                /\ calls[i].call.src = GroupPath(g)
                /\ calls[i].call.with_password
                /\ calls[i].call.password = GroupPassword(g)

\* one file-sourced group without a password and one with an empty password
\* have both been loaded
C19_Witness ==
    /\ args # None
    /\ \E g, h \in KeyGroups :
         /\ FileSourced(g) /\ GroupPassword(g) = None
         /\ \E i \in CallsBy(g) : calls[i].call.password = None
         /\ FileSourced(h) /\ GroupPassword(h) = Some("")
         /\ \E i \in CallsBy(h) : calls[i].call.password = Some("")

----------------------------------------------------------------------------
(* C21 *)

\* C21: the provider call of each accessor is made of its own group's file,
\* json, ephemeral flag and password and of nothing else: whatever the other
\* group's fields and password are, the call is the one its own fields give.
C21_AccessorsReadOwnGroup ==
    args # None =>
        /\ \A i \in CallsBy("ecdsa") :
             LET k == args[1].ecdsa_key
                 c == calls[i].call
             IN  /\ c.fn = Priority(k.ecdsa_key_file, k.ecdsa_key_json, k.ecdsa_ephemeral_key)
                 /\ c.src = (CASE c.fn = "from_path" -> k.ecdsa_key_file
                               [] c.fn = "from_string" -> k.ecdsa_key_json
                               [] OTHER -> None)
                 /\ c.password = (IF c.fn = "random" THEN None ELSE args[1].ecdsa_key_password)
        /\ \A i \in CallsBy("bls") :
             LET k == args[1].bls_key
                 c == calls[i].call
             IN  /\ c.fn = Priority(k.bls_key_file, k.bls_key_json, k.bls_ephemeral_key)
                 /\ c.src = (CASE c.fn = "from_path" -> k.bls_key_file
                               [] c.fn = "from_string" -> k.bls_key_json
                               [] OTHER -> None)
                 /\ c.password = (IF c.fn = "random" THEN None ELSE args[1].bls_key_password)

\* both groups resolved from different kinds of source and with different
\* passwords, each call carrying its own group's
C21_Witness ==
    /\ args # None
    /\ args[1].ecdsa_key_password = Some("hunter2")
    /\ args[1].bls_key_password = Some("")
    /\ \E i \in CallsBy("ecdsa") :
         calls[i].call.fn = "from_path" /\ calls[i].call.password = Some("hunter2")
    /\ \E j \in CallsBy("bls") :
         calls[j].call.fn = "from_string" /\ calls[j].call.password = Some("")

----------------------------------------------------------------------------
(* C22 *)

BothEphemeral == EcdsaInputSources[3] /\ BlsInputSources[3]

\* C22: the log never holds more than one warning; it holds one only when the
\* chain is not 31337, the command is not Testnet and a key group is
\* ephemeral; on chain 31337 it holds none; and when build returns off chain
\* 31337 with both groups ephemeral it holds exactly one.
C22_WarningAtMostOnce ==
    /\ Len(log) <= 1
    /\ log # <<>> =>
         /\ log = <<WarnLine>>
         /\ InputChainId # Some(31337)
         /\ ~IsTestnet(argv.command)
         /\ EitherEphemeral
    /\ InputChainId = Some(31337) => log = <<>>
    /\ (BuildReturned /\ InputChainId # Some(31337) /\ BothEphemeral) => Len(log) = 1

\* both groups ephemeral off chain 31337: one warning; the state is one after
\* both resolutions, so nothing later adds to the log
C22_Witness ==
    /\ pc = "running"
    /\ InputChainId # Some(31337)
    /\ BothEphemeral
    /\ log = <<WarnLine>>
    /\ Len(calls) = 2

----------------------------------------------------------------------------
(* C23 *)

\* C23: for an input that parses, off chain 31337 with the Testnet command and
\* an ephemeral key group, build ends the process with the command error and
\* the log holds no warning.
C23_GateBeforeWarning ==
    ( /\ pc # "start"
      /\ InputParses
      /\ InputChainId # Some(31337)
      /\ IsTestnet(argv.command)
      /\ EitherEphemeral)
        => ( /\ pc = "exited"
             /\ args = None
             /\ exit_err = Some(TestnetError)
             /\ exit_code # 0
             /\ log = <<>>)

\* the gate has ended the process of an input whose key groups are both
\* ephemeral
C23_Witness ==
    /\ pc = "exited"
    /\ exit_err = Some(TestnetError)
    /\ InputChainId # Some(31337)
    /\ IsTestnet(argv.command)
    /\ BothEphemeral
    /\ log = <<>>

----------------------------------------------------------------------------
(* C24 *)

\* C24: for an input that parses, whatever the chain id, build returns a
\* configuration carrying the command when the command is OptInAvs, OptOutAvs,
\* PrintStatus or absent; and on chain 31337 it does so for Testnet too.
C24_GateRejectsOnlyTestnet ==
    ( /\ pc # "start"
      /\ InputParses
      /\ (~IsTestnet(argv.command) \/ InputChainId = Some(31337)))
        => ( /\ BuildReturned
             /\ args # None
             /\ exit_err = None
             /\ exit_code = 0
             /\ (argv.command = None <=> args[1].command = None)
             /\ argv.command # None => args[1].command[1].name = argv.command[1].name)

\* a command other than Testnet, off chain 31337, built
C24_Witness ==
    /\ pc = "running"
    /\ InputChainId = Some(1)
    /\ argv.command # None
    /\ argv.command[1].name = "PrintStatus"
    /\ args # None
    /\ args[1].command[1].name = "PrintStatus"

----------------------------------------------------------------------------
(* C25 *)

\* C25: the configuration build returns is, field by field, what argument
\* parsing produced from argv and the environment, and stays so.
C25_BuildKeepsParsedValues ==
    args # None =>
        /\ args[1] = ParsedArgs(argv, env)
        /\ \A f \in RequiredArgs : args[1][f] = OptionArg(argv[f], env[f])[1]
        /\ args[1].ecdsa_key_password = OptionArg(argv.ecdsa_key_password, env.ecdsa_key_password)
        /\ args[1].bls_key_password = OptionArg(argv.bls_key_password, env.bls_key_password)
        /\ args[1].ecdsa_key.ecdsa_key_file = OptionArg(argv.ecdsa_key_file, env.ecdsa_key_file)
        /\ args[1].ecdsa_key.ecdsa_key_json = OptionArg(argv.ecdsa_key_json, env.ecdsa_key_json)
        /\ args[1].bls_key.bls_key_file = OptionArg(argv.bls_key_file, env.bls_key_file)
        /\ args[1].bls_key.bls_key_json = OptionArg(argv.bls_key_json, env.bls_key_json)
        /\ args[1].ecdsa_key.ecdsa_ephemeral_key = EcdsaInputSources[3]
        /\ args[1].bls_key.bls_ephemeral_key = BlsInputSources[3]
        /\ args[1].register_at_startup = argv.register_at_startup
        /\ (args[1].command = None <=> argv.command = None)
        /\ argv.command # None =>
             /\ args[1].command[1].name = argv.command[1].name
             /\ argv.command[1].stake # None =>
                    args[1].command[1].stake = argv.command[1].stake

\* a configuration with the Testnet command and a stake, both passwords and
\* an ephemeral group, built on chain 31337 and with its values kept
C25_Witness ==
    /\ pc = "running"
    /\ args # None
    /\ args[1].chain_id = 31337
    /\ IsTestnet(args[1].command)
    /\ args[1].command[1].stake = Some(500)
    /\ args[1].ecdsa_key_password = Some("hunter2")
    /\ args[1].bls_key_password = Some("hunter2")
    /\ args[1].ecdsa_key.ecdsa_ephemeral_key
    /\ args[1].bls_key.bls_key_file # None

----------------------------------------------------------------------------
(* C26 *)

\* C26: an input with an invalid key group (zero or more than one of key
\* file, inline json, ephemeral flag populated) and the Testnet command off
\* chain 31337 fails with the key-group parse error, not with the command
\* error, and the log holds no warning.
C26_ParseBeforeGate ==
    ( /\ pc # "start"
      /\ (HowMany(EcdsaInputSources) # 1 \/ HowMany(BlsInputSources) # 1)
      /\ InputChainId # Some(31337)
      /\ IsTestnet(argv.command))
        => ( /\ BuildFailed
             /\ exit_err # Some(TestnetError)
             /\ exit_err[1].about \cap KeyGroups # {}
             /\ log = <<>>)

----------------------------------------------------------------------------
(* C27 *)

PathValues == Opt(ArgvFiles \cup EnvFiles)
ContentValues == Opt(ArgvJsons \cup EnvJsons)

SamePresence(p1, c1, p2, c2) ==
    ((p1 = None) <=> (p2 = None)) /\ ((c1 = None) <=> (c2 = None))

\* C27: the strategy of an invocation is a matter of the presence of a path,
\* the presence of inline content and the ephemeral flag alone: every
\* invocation with another password, or with other path and content values of
\* the same presence, selects the strategy of the call that was made, and
\* the two groups select the same strategy when they agree on the three.
C27_StrategyByPresenceOnly ==
    args # None =>
        /\ \A g \in KeyGroups :
             \A p2 \in PathValues, c2 \in ContentValues :
                 SamePresence(GroupPath(g), GroupContent(g), p2, c2) =>
                     Strategy(p2, c2, GroupEphemeral(g))
                        = Strategy(GroupPath(g), GroupContent(g), GroupEphemeral(g))
        /\ \A i \in 1..Len(calls) :
             LET g == calls[i].by
             IN  /\ \A p2 \in PathValues, c2 \in ContentValues :
                        SamePresence(GroupPath(g), GroupContent(g), p2, c2) =>
                            Strategy(p2, c2, GroupEphemeral(g)) = calls[i].call.fn
                 /\ \A pw2 \in Opt(ResolvePasswords) :
                        ProviderCall(GroupPath(g), GroupContent(g), GroupEphemeral(g), pw2).fn
                            = calls[i].call.fn
        /\ \A i \in CallsBy("ecdsa"), j \in CallsBy("bls") :
             ( /\ SamePresence(GroupPath("ecdsa"), GroupContent("ecdsa"),
                               GroupPath("bls"), GroupContent("bls"))
               /\ GroupEphemeral("ecdsa") = GroupEphemeral("bls"))
                => calls[i].call.fn = calls[j].call.fn

\* both groups hold a path and inline content, with different passwords, and
\* both were resolved by from_path
C27_Witness ==
    /\ args # None
    /\ \A g \in KeyGroups :
         GroupPath(g) # None /\ GroupContent(g) # None /\ ~GroupEphemeral(g)
    /\ GroupPassword("ecdsa") = Some("hunter2")
    /\ GroupPassword("bls") = None
    /\ \E i \in CallsBy("ecdsa") : calls[i].call.fn = "from_path"
    /\ \E j \in CallsBy("bls") : calls[j].call.fn = "from_path"

----------------------------------------------------------------------------
(* C28 *)

SerializedValue(out, name) == out[CHOOSE i \in 1..Len(out) : out[i][1] = name][2]

\* C28: the serialized configuration is the same whatever the two inline json
\* strings are and has no json field; each key group is serialized with its
\* ephemeral flag, and with its key file exactly when there is one; the
\* command is serialized exactly when there is one.
C28_InlineJsonNotSerialized ==
    serialized # None =>
        LET out == serialized[1]
            ek == SerializedValue(out, "ecdsa_key")
            bk == SerializedValue(out, "bls_key")
        IN  /\ \A j1 \in Opt(ArgvJsons \cup {"other-json"}),
                  j2 \in Opt(EnvJsons \cup {"other-json"}) :
                 Serialize([args[1] EXCEPT !.ecdsa_key.ecdsa_key_json = j1,
                                           !.bls_key.bls_key_json = j2]) = out
            /\ (SerializedKeys(out) \cup SerializedKeys(ek) \cup SerializedKeys(bk))
                    \cap {"ecdsa_key_json", "bls_key_json"} = {}
            /\ "ecdsa_ephemeral_key" \in SerializedKeys(ek)
            /\ SerializedValue(ek, "ecdsa_ephemeral_key") = args[1].ecdsa_key.ecdsa_ephemeral_key
            /\ "bls_ephemeral_key" \in SerializedKeys(bk)
            /\ SerializedValue(bk, "bls_ephemeral_key") = args[1].bls_key.bls_ephemeral_key
            /\ "ecdsa_key_file" \in SerializedKeys(ek) <=> args[1].ecdsa_key.ecdsa_key_file # None
            /\ "bls_key_file" \in SerializedKeys(bk) <=> args[1].bls_key.bls_key_file # None
            /\ "command" \in SerializedKeys(out) <=> args[1].command # None

\* a configuration with inline ECDSA json (and so no ECDSA key file), a BLS
\* key file and a command has been serialized
C28_Witness ==
    /\ serialized # None
    /\ args[1].ecdsa_key.ecdsa_key_json # None
    /\ args[1].ecdsa_key.ecdsa_key_file = None
    /\ args[1].bls_key.bls_key_file # None
    /\ args[1].command # None
    /\ "command" \in SerializedKeys(serialized[1])
    /\ "ecdsa_key_file" \notin SerializedKeys(SerializedValue(serialized[1], "ecdsa_key"))

----------------------------------------------------------------------------
(* C29 *)

\* C29: every call for an ephemeral group is random(), and when random()
\* fails that call is the only one of its run and its failure is what the
\* resolver returns, a path or inline content present or not.
C29_RandomFailureSurfaced ==
    /\ [](args # None =>
            \A g \in KeyGroups : GroupEphemeral(g) =>
                \A i \in CallsBy(g) : calls[i].call.fn = "random")
    /\ [][(args # None /\ Len(calls') > Len(calls)) =>
            LET first == calls'[Len(calls) + 1]
            IN  (first.call.fn = "random" /\ first.returned # "Ok") =>
                    /\ Len(calls') = Len(calls) + 1
                    /\ GroupEphemeral(first.by)
                    /\ results'[first.by] = Some(first.returned)
                    /\ pc' = "running"]_vars

\* an ephemeral group that also holds a path and inline content, whose
\* random() failed
C29_Witness ==
    /\ args # None
    /\ \E g \in KeyGroups :
         /\ GroupEphemeral(g) /\ GroupPath(g) # None /\ GroupContent(g) # None
         /\ Cardinality(CallsBy(g)) = 1
         /\ \A i \in CallsBy(g) : calls[i].call.fn = "random" /\ calls[i].returned = "Failed"
         /\ results[g] = Some("Failed")

====
